---- MODULE Spec2Model ----
(***************************************************************************)
(* Complaint store of sularchi (services/complaint-store.ts): the profile  *)
(* and the complaint log persisted in AsyncStorage, the asynchronous store *)
(* operations fileComplaint and updateUserName stepped at every await, and  *)
(* the pure helpers calculatePoints and computeStreak.                     *)
(*                                                                         *)
(* Time is counted in ticks (the millisecond of Date.now()), a confidence  *)
(* in hundredths (0.85 is 85).  An absent value (null) is the empty        *)
(* sequence, a present one a one-element sequence or a non-empty tuple.    *)
(***************************************************************************)
EXTENDS Integers, Sequences, FiniteSets, TLC

\* ---------------------------------------------------------------- bounds
NumCalls == 2
MaxCalls == 2
MaxFaults == 2
MaxTime == 3
MaxRand == 2
MaxStreak == 9

TicksPerDay == 2
DaysPerMonth == 2
MonthsPerYear == 2
TzOffset == 1

Calls == 1..NumCalls
Times == 0..MaxTime
RandValues == 1..MaxRand

\* ------------------------------------------------------------- variables
VARIABLES
    profileRec,     \* AsyncStorage record USER_PROFILE_KEY: <<>> or <<profile>>
    complaintsRec,  \* AsyncStorage record COMPLAINTS_KEY: the stored array, <<>> when absent
    clock,          \* the device clock, in ticks
    call,           \* the in-flight and finished store operations, one per slot
    pre,            \* per slot: the two records as they were when the call was issued
    alone,          \* per slot: no other store operation has overlapped the call
    started,        \* number of store operations issued so far
    faults,         \* number of storage failures so far
    probe,          \* the last call of a pure function: its arguments and result
    classifier,     \* the classifyWaste call: its position, input and result
    screen          \* the scan screen: its React state and its pending handlers

vars == <<profileRec, complaintsRec, clock, call, pre, alone, started, faults, probe,
         classifier, screen>>
storeVars == <<profileRec, complaintsRec, clock, call, pre, alone, started, faults>>

\* ------------------------------------------------------- dates and times
\* Date.prototype.toISOString: the UTC date and the time of day
toISOString(t) == <<t \div TicksPerDay, t % TicksPerDay>>

\* new Date(isoString).getTime()
parseDate(iso) == iso[1] * TicksPerDay + iso[2]

\* the local calendar fields of a Date
localDayNumber(t) == (t + TzOffset) \div TicksPerDay
getDate(t) == (localDayNumber(t) % DaysPerMonth) + 1
getMonth(t) == (localDayNumber(t) \div DaysPerMonth) % MonthsPerYear
getFullYear(t) == localDayNumber(t) \div (DaysPerMonth * MonthsPerYear)

\* d.setDate(d.getDate() - 1): the same local time on the previous calendar day
setDateMinusOne(t) == t - TicksPerDay

isSameDay_dateOnly(d1, d2) == getDate(d1) = getDate(d2)

isSameDay(d1, d2) ==
    /\ getFullYear(d1) = getFullYear(d2)
    /\ getMonth(d1) = getMonth(d2)
    /\ getDate(d1) = getDate(d2)

isYesterday(d1, d2) == isSameDay(d1, setDateMinusOne(d2))

\* computeStreak, with the value of new Date() it reads as the third argument
computeStreak(lastReportDate, currentStreak, now) ==
    IF lastReportDate = <<>> THEN 1
    ELSE LET last == parseDate(lastReportDate) IN
         IF isSameDay(last, now) THEN currentStreak
         ELSE IF isYesterday(last, now) THEN currentStreak + 1
         ELSE 1

\* ---------------------------------------------------------------- points
WasteCategories ==
    {"plastic", "paper", "glass", "metal", "organic", "e-waste", "textile",
     "hazardous", "unknown"}

POINTS_TABLE ==
    [c \in WasteCategories |->
        CASE c = "plastic" -> 10
          [] c = "paper" -> 8
          [] c = "glass" -> 12
          [] c = "metal" -> 12
          [] c = "organic" -> 6
          [] c = "e-waste" -> 20
          [] c = "textile" -> 10
          [] c = "hazardous" -> 25
          [] c = "unknown" -> 3]

STREAK_BONUS == 5
HIGH_CONFIDENCE_BONUS == 5
HIGH_CONFIDENCE == 85
STREAK_CAP == 7
FALLBACK_POINTS == 3

Min(a, b) == IF a < b THEN a ELSE b

calculatePoints_strict(category, confidence, currentStreak) ==
    LET base == IF category \in DOMAIN POINTS_TABLE /\ POINTS_TABLE[category] # 0
                THEN POINTS_TABLE[category] ELSE FALLBACK_POINTS
        conf == IF confidence > HIGH_CONFIDENCE THEN HIGH_CONFIDENCE_BONUS ELSE 0
        strk == IF currentStreak > 0
                THEN Min(currentStreak, STREAK_CAP) * STREAK_BONUS ELSE 0
    IN base + conf + strk

calculatePoints(category, confidence, currentStreak) ==
    LET base == IF category \in DOMAIN POINTS_TABLE /\ POINTS_TABLE[category] # 0
                THEN POINTS_TABLE[category] ELSE FALLBACK_POINTS
        conf == IF confidence >= HIGH_CONFIDENCE THEN HIGH_CONFIDENCE_BONUS ELSE 0
        strk == IF currentStreak > 0
                THEN Min(currentStreak, STREAK_CAP) * STREAK_BONUS ELSE 0
    IN base + conf + strk

\* --------------------------------------------------------------- storage
DEFAULT_PROFILE ==
    [id |-> "local-user", name |-> "Eco Warrior", totalPoints |-> 0,
     totalReports |-> 0, streak |-> 0, lastReportDate |-> <<>>]

\* AsyncStorage.setItem: the record after the write; a failed write stores nothing
setItem(old, new, ok) == IF ok THEN new ELSE old

getUserProfile_noCatch(rec, ok) ==
    IF rec # <<>> THEN rec[1] ELSE DEFAULT_PROFILE

\* getUserProfile: ok is FALSE when getItem or JSON.parse throws
getUserProfile(rec, ok) ==
    IF ok /\ rec # <<>> THEN rec[1] ELSE DEFAULT_PROFILE

\* Array.prototype.sort with (a, b) => time(b) - time(a): stable, newest first
RECURSIVE insertByCreatedAt(_, _)
insertByCreatedAt(c, sorted) ==
    IF sorted = <<>> THEN <<c>>
    ELSE IF parseDate(Head(sorted).createdAt) >= parseDate(c.createdAt)
         THEN <<Head(sorted)>> \o insertByCreatedAt(c, Tail(sorted))
         ELSE <<c>> \o sorted

RECURSIVE sortByCreatedAtDesc(_)
sortByCreatedAtDesc(s) ==
    IF s = <<>> THEN <<>>
    ELSE insertByCreatedAt(s[Len(s)], sortByCreatedAtDesc(SubSeq(s, 1, Len(s) - 1)))

getComplaints_unsorted(rec, ok) ==
    IF ok /\ rec # <<>> THEN rec ELSE <<>>

\* getComplaints: ok is FALSE when getItem or JSON.parse throws
getComplaints(rec, ok) ==
    IF ok /\ rec # <<>> THEN sortByCreatedAtDesc(rec) ELSE <<>>

\* ------------------------------------------------------ store operations
\* what the callers pass: fileComplaint's classification, updateUserName's name
FileInputs ==
    {[wasteCategory |-> "organic", confidence |-> 50],
     [wasteCategory |-> "hazardous", confidence |-> 90]}
Names == {"Ann"}

IdleCall ==
    [pc |-> "idle", op |-> "none", wasteCategory |-> "unknown", confidence |-> 0,
     imageUri |-> 0, name |-> "", read |-> <<>>, profile |-> DEFAULT_PROFILE,
     newStreak |-> 0,
     pointsAwarded |-> 0, complaint |-> <<>>, complaints |-> <<>>, attempt |-> 0]

InFlight(c) == call[c].pc \in {"getProfile", "getLog", "setLog", "setProfile"}

\* a new call takes the first slot that holds no call in flight
Free(c) == ~InFlight(c) /\ \A d \in Calls : d < c => InFlight(d)

\* a step of slot c overlaps every other call in flight
overlapBy(c) == [d \in Calls |-> IF d # c /\ InFlight(d) THEN FALSE ELSE alone[d]]

\* issuing a call in slot c: c is alone when nothing else is in flight
overlapAtStart(c) ==
    [d \in Calls |-> IF d = c THEN \A e \in Calls \ {c} : ~InFlight(e)
                     ELSE IF InFlight(d) THEN FALSE ELSE alone[d]]

snapshot == [profile |-> profileRec, log |-> complaintsRec]

\* the result of a storage access: a failure is taken while the budget lasts
Outcomes == IF faults < MaxFaults THEN {TRUE, FALSE} ELSE {TRUE}
countFault(ok) == IF ok THEN faults ELSE faults + 1

\* an awaited write that is the call's last: the call returns, or rejects with
\* the write's error, which no try/catch of the store intercepts
settle_swallowed(ok) == "done"

settle(ok) == IF ok THEN "done" ELSE "rejected"

\* fileComplaint called: getUserProfile() is awaited
FileComplaint(c, input) ==
    /\ Free(c)
    /\ started < MaxCalls
    /\ call' = [call EXCEPT ![c] =
                  [IdleCall EXCEPT !.pc = "getProfile", !.op = "file",
                                   !.wasteCategory = input.wasteCategory,
                                   !.confidence = input.confidence,
                                   !.imageUri = started + 1, !.attempt = 1]]
    /\ pre' = [pre EXCEPT ![c] = snapshot]
    /\ alone' = overlapAtStart(c)
    /\ started' = started + 1
    /\ UNCHANGED <<profileRec, complaintsRec, clock, faults, probe, classifier, screen>>

\* handleSubmitReport pressed again after the alert: the same image and result
RetrySubmit(c) ==
    /\ call[c].pc = "rejected"
    /\ call[c].op = "file"
    /\ started < MaxCalls
    /\ call' = [call EXCEPT ![c] =
                  [IdleCall EXCEPT !.pc = "getProfile", !.op = "file",
                                   !.wasteCategory = call[c].wasteCategory,
                                   !.confidence = call[c].confidence,
                                   !.imageUri = call[c].imageUri,
                                   !.attempt = call[c].attempt + 1]]
    /\ pre' = [pre EXCEPT ![c] = snapshot]
    /\ alone' = overlapAtStart(c)
    /\ started' = started + 1
    /\ UNCHANGED <<profileRec, complaintsRec, clock, faults, probe, classifier, screen>>

\* updateUserName called: getUserProfile() is awaited
UpdateUserName(c, name) ==
    /\ Free(c)
    /\ started < MaxCalls
    /\ call' = [call EXCEPT ![c] =
                  [IdleCall EXCEPT !.pc = "getProfile", !.op = "name", !.name = name]]
    /\ pre' = [pre EXCEPT ![c] = snapshot]
    /\ alone' = overlapAtStart(c)
    /\ started' = started + 1
    /\ UNCHANGED <<profileRec, complaintsRec, clock, faults, probe, classifier, screen>>

\* the complaint object fileComplaint builds
newComplaint(c, points, now, rand) ==
    [id |-> <<now, rand>>, imageUri |-> call[c].imageUri,
     wasteCategory |-> call[c].wasteCategory, confidence |-> call[c].confidence,
     pointsAwarded |-> points, status |-> "pending", createdAt |-> toISOString(now)]

\* getUserProfile resolves in fileComplaint: streak, points and complaint are
\* computed and getComplaints() is awaited
FileGotProfile(c, ok, rand) ==
    /\ call[c].pc = "getProfile"
    /\ call[c].op = "file"
    /\ LET profile == getUserProfile(profileRec, ok)
           newStreak == computeStreak(profile.lastReportDate, profile.streak, clock)
           points == calculatePoints(call[c].wasteCategory, call[c].confidence, newStreak)
       IN call' = [call EXCEPT ![c].pc = "getLog",
                               ![c].read = IF ok THEN profileRec ELSE <<>>,
                               ![c].profile = profile,
                               ![c].newStreak = newStreak,
                               ![c].pointsAwarded = points,
                               ![c].complaint = <<newComplaint(c, points, clock, rand)>>]
    /\ faults' = countFault(ok)
    /\ alone' = overlapBy(c)
    /\ UNCHANGED <<profileRec, complaintsRec, clock, pre, started, probe, classifier, screen>>

\* getComplaints resolves in fileComplaint: the complaint is unshifted and the
\* write of the log is awaited
FileGotComplaints(c, ok) ==
    /\ call[c].pc = "getLog"
    /\ call' = [call EXCEPT ![c].pc = "setLog",
                            ![c].complaints =
                                call[c].complaint \o getComplaints(complaintsRec, ok)]
    /\ faults' = countFault(ok)
    /\ alone' = overlapBy(c)
    /\ UNCHANGED <<profileRec, complaintsRec, clock, pre, started, probe, classifier, screen>>

\* the profile object after lines 234-237
award_fresh(profile, points, newStreak, iso) ==
    LET current == getUserProfile(profileRec, TRUE)
    IN [current EXCEPT !.totalPoints = current.totalPoints + points,
                       !.totalReports = current.totalReports + 1,
                       !.streak = newStreak,
                       !.lastReportDate = iso]

award_uncounted(profile, points, newStreak, iso) ==
    [profile EXCEPT !.totalReports = profile.totalReports + 1,
                    !.streak = newStreak,
                    !.lastReportDate = iso]

award_oldStreak(profile, points, newStreak, iso) ==
    [profile EXCEPT !.totalPoints = profile.totalPoints + points,
                    !.totalReports = profile.totalReports + 1,
                    !.lastReportDate = iso]

award(profile, points, newStreak, iso) ==
    [profile EXCEPT !.totalPoints = profile.totalPoints + points,
                    !.totalReports = profile.totalReports + 1,
                    !.streak = newStreak,
                    !.lastReportDate = iso]

\* the write of the log settles: on success the profile object is updated and
\* saveUserProfile is awaited, on failure fileComplaint rejects
FileSetComplaints(c, ok) ==
    /\ call[c].pc = "setLog"
    /\ complaintsRec' = setItem(complaintsRec, call[c].complaints, ok)
    /\ call' = IF ok
               THEN [call EXCEPT ![c].pc = "setProfile",
                                 ![c].profile =
                                     award(call[c].profile, call[c].pointsAwarded,
                                           call[c].newStreak,
                                           call[c].complaint[1].createdAt)]
               ELSE [call EXCEPT ![c].pc = settle(ok)]
    /\ faults' = countFault(ok)
    /\ alone' = overlapBy(c)
    /\ UNCHANGED <<profileRec, clock, pre, started, probe, classifier, screen>>

\* getUserProfile resolves in updateUserName: the name is set and
\* saveUserProfile is awaited
NameGotProfile(c, ok) ==
    /\ call[c].pc = "getProfile"
    /\ call[c].op = "name"
    /\ call' = [call EXCEPT ![c].pc = "setProfile",
                            ![c].read = IF ok THEN profileRec ELSE <<>>,
                            ![c].profile =
                                [getUserProfile(profileRec, ok)
                                     EXCEPT !.name = call[c].name]]
    /\ faults' = countFault(ok)
    /\ alone' = overlapBy(c)
    /\ UNCHANGED <<profileRec, complaintsRec, clock, pre, started, probe, classifier, screen>>

\* saveUserProfile settles, in fileComplaint or updateUserName: the call
\* returns, or rejects when the write failed
SaveUserProfile(c, ok) ==
    /\ call[c].pc = "setProfile"
    /\ profileRec' = setItem(profileRec, <<call[c].profile>>, ok)
    /\ call' = [call EXCEPT ![c].pc = settle(ok)]
    /\ faults' = countFault(ok)
    /\ alone' = overlapBy(c)
    /\ UNCHANGED <<complaintsRec, clock, pre, started, probe, classifier, screen>>

\* the device clock advances
Tick ==
    /\ clock < MaxTime
    /\ clock' = clock + 1
    /\ UNCHANGED <<profileRec, complaintsRec, call, pre, alone, started, faults, probe, classifier, screen>>

\* the device clock is set back (manual change, network time correction)
ClockSetBack ==
    /\ \E t \in Times : t < clock /\ clock' = t
    /\ UNCHANGED <<profileRec, complaintsRec, call, pre, alone, started, faults, probe, classifier, screen>>

NoProbe == [fn |-> "none", args |-> <<>>, result |-> 0]

\* no classifyWaste call yet
IdleClassifier ==
    [pc |-> "idle", key |-> FALSE, imageUri |-> "", response |-> <<>>,
     fallback |-> "none", result |-> <<>>]

\* the scan screen as mounted: the useState initial values, no handler pending.
\* capturedUri is the number of the photo (0 is null); capture is the position
\* of handleCapture, awaiting the calls that handleSubmitReport awaits, filed
\* the photos whose fileComplaint has returned to its handler
InitScreen ==
    [scanState |-> "camera", capturedUri |-> 0, result |-> <<>>, location |-> <<>>,
     isSubmitting |-> FALSE, submitted |-> FALSE, pointsAwarded |-> <<>>,
     capture |-> "idle", photo |-> 0, awaiting |-> {}, filed |-> {}]

Init ==
    /\ profileRec = <<>>
    /\ complaintsRec = <<>>
    /\ clock = 0
    /\ call = [c \in Calls |-> IdleCall]
    /\ pre = [c \in Calls |-> [profile |-> <<>>, log |-> <<>>]]
    /\ alone = [c \in Calls |-> TRUE]
    /\ started = 0
    /\ faults = 0
    /\ probe = NoProbe
    /\ classifier = IdleClassifier
    /\ screen = InitScreen

Next ==
    \/ \E c \in Calls, input \in FileInputs : FileComplaint(c, input)
    \/ \E c \in Calls : RetrySubmit(c)
    \/ \E c \in Calls, name \in Names : UpdateUserName(c, name)
    \/ \E c \in Calls, ok \in Outcomes, rand \in RandValues : FileGotProfile(c, ok, rand)
    \/ \E c \in Calls, ok \in Outcomes : FileGotComplaints(c, ok)
    \/ \E c \in Calls, ok \in Outcomes : FileSetComplaints(c, ok)
    \/ \E c \in Calls, ok \in Outcomes : NameGotProfile(c, ok)
    \/ \E c \in Calls, ok \in Outcomes : SaveUserProfile(c, ok)
    \/ Tick
    \/ ClockSetBack

Spec == Init /\ [][Next]_vars

\* ------------------------------------------------- the pure functions
\* the arguments the pure functions are called with
ProbeTimes == 0..(4 * TicksPerDay)
ProbeDates == {<<>>} \cup {toISOString(t) : t \in ProbeTimes}
ProbeStreaks == 0..MaxStreak
ProbeConfidences == {0, 50, 84, 85, 86, 90, 100}

\* computeStreak(lastReportDate, currentStreak) called when the clock reads now
CallComputeStreak(lastReportDate, currentStreak, now) ==
    /\ probe' = [fn |-> "computeStreak",
                 args |-> <<lastReportDate, currentStreak, now>>,
                 result |-> computeStreak(lastReportDate, currentStreak, now)]
    /\ UNCHANGED <<storeVars, classifier, screen>>

\* calculatePoints(category, confidence, currentStreak) called
CallCalculatePoints(category, confidence, currentStreak) ==
    /\ probe' = [fn |-> "calculatePoints",
                 args |-> <<category, confidence, currentStreak>>,
                 result |-> calculatePoints(category, confidence, currentStreak)]
    /\ UNCHANGED <<storeVars, classifier, screen>>

NextPure ==
    \/ \E d \in ProbeDates, s \in ProbeStreaks, t \in ProbeTimes :
           CallComputeStreak(d, s, t)
    \/ \E cat \in WasteCategories, conf \in ProbeConfidences, s \in ProbeStreaks :
           CallCalculatePoints(cat, conf, s)

SpecPure == Init /\ [][NextPure]_vars

\* ------------------------------------------------------------- claims
\* the profile a getUserProfile() would return, and the log a getComplaints() would
persistedProfile == getUserProfile(profileRec, TRUE)
persistedLog == getComplaints(complaintsRec, TRUE)

\* slot c is a fileComplaint whose last write succeeds in this step
FileCompletes(c) ==
    call[c].op = "file" /\ call[c].pc = "setProfile" /\ call'[c].pc = "done"

\* C1: a fileComplaint that completes with no other store operation interleaved
\* leaves totalReports exactly 1 greater and totalPoints greater by exactly the
\* returned pointsAwarded than before the call, and the returned complaint is
\* the first element of a following getComplaints().
C1_FileComplaintEffect ==
    [][\A c \in Calls :
          (FileCompletes(c) /\ alone[c]) =>
              LET before == getUserProfile(pre[c].profile, TRUE)
                  after == getUserProfile(profileRec', TRUE)
                  listed == getComplaints(complaintsRec', TRUE)
              IN /\ after.totalReports = before.totalReports + 1
                 /\ after.totalPoints = before.totalPoints + call[c].pointsAwarded
                 /\ listed # <<>>
                 /\ listed[1] = call[c].complaint[1]]_vars

\* C2: in every reachable state the persisted totalReports equals the number
\* of complaints in the persisted log.
C2_ReportsEqualLogLength ==
    persistedProfile.totalReports = Len(complaintsRec)

\* C3: the persisted totalPoints never decreases across any step and changes
\* only as the effect of a fileComplaint.
C3_PointsMonotone ==
    [][LET before == persistedProfile.totalPoints
           after == getUserProfile(profileRec', TRUE).totalPoints
       IN /\ after >= before
          /\ after # before => \E c \in Calls : FileCompletes(c)]_vars

\* C4: the persisted totalReports never decreases across any step.
C4_ReportsMonotone ==
    [][getUserProfile(profileRec', TRUE).totalReports
           >= persistedProfile.totalReports]_vars

\* C5: fileComplaint is not safe against concurrent invocation.  Whenever a
\* fileComplaint completes that had read the same stored profile as another,
\* completed fileComplaint whose profile write is the stored one, the persisted
\* totalPoints ends below that profile's totalPoints plus the two pointsAwarded,
\* and totalReports has grown by less than 2: the first call's award is lost.
C5_LostUpdate ==
    [][\A c, d \in Calls :
          (/\ c # d
           /\ FileCompletes(c)
           /\ call[d].op = "file" /\ call[d].pc = "done"
           /\ call[c].read = call[d].read
           /\ profileRec = <<call[d].profile>>) =>
              LET initial == getUserProfile(call[d].read, TRUE)
                  after == getUserProfile(profileRec', TRUE)
              IN /\ after.totalPoints
                      < initial.totalPoints + call[c].pointsAwarded + call[d].pointsAwarded
                 /\ after.totalReports < initial.totalReports + 2]_vars

\* two fileComplaint calls, no storage failure, both completed from the same
\* profile read, and the persisted totals short of the two awards
C5_Witness ==
    /\ faults = 0
    /\ \A c \in Calls : call[c].op = "file" /\ call[c].pc = "done"
    /\ call[1].read = call[2].read
    /\ complaintsRec # <<>>
    /\ LET initial == getUserProfile(call[1].read, TRUE)
       IN /\ persistedProfile.totalPoints
               < initial.totalPoints + call[1].pointsAwarded + call[2].pointsAwarded
          /\ persistedProfile.totalReports < initial.totalReports + 2

\* the complaints of the persisted log that carry the image of slot c
complaintsOfImage(c) ==
    {i \in DOMAIN complaintsRec : complaintsRec[i].imageUri = call[c].imageUri}

\* C6: after a fileComplaint that failed part-way is retried with the same input
\* and succeeds, the log holds exactly one complaint for that submission and
\* totalPoints has been incremented exactly once for it.
C6_RetryNoDuplicate ==
    \A c \in Calls :
        (call[c].op = "file" /\ call[c].pc = "done" /\ call[c].attempt > 1 /\ alone[c]
         /\ profileRec = <<call[c].profile>>) =>
            /\ Cardinality(complaintsOfImage(c)) = 1
            /\ persistedProfile.totalPoints
                   = getUserProfile(pre[c].profile, TRUE).totalPoints
                         + call[c].pointsAwarded

\* slot c is a fileComplaint that rejects in this step, at the write of the log
\* or at the write of the profile
LogWriteFails(c) ==
    /\ call[c].op = "file" /\ call[c].pc = "setLog"
    /\ call'[c].pc # "setLog" /\ faults' > faults
ProfileWriteFails(c) ==
    /\ call[c].op = "file" /\ call[c].pc = "setProfile"
    /\ call'[c].pc # "setProfile" /\ faults' > faults

C8_ComplaintsKept ==
    [][\A i \in DOMAIN complaintsRec :
          \E j \in DOMAIN complaintsRec' :
              /\ complaintsRec'[j].id = complaintsRec[i].id
              /\ complaintsRec'[j].pointsAwarded = complaintsRec[i].pointsAwarded]_vars

\* C9: computeStreak returns 1 for a null lastReportDate, currentStreak when
\* lastReportDate is on the same local calendar day as now, currentStreak + 1
\* when it is on the day immediately before now, and 1 in every other case
\* (a gap of two or more days, or a lastReportDate on a later day than now).
C9_ComputeStreakCases ==
    probe.fn = "computeStreak" =>
        LET last == probe.args[1]
            streak == probe.args[2]
            today == localDayNumber(probe.args[3])
        IN IF last = <<>> THEN probe.result = 1
           ELSE LET lastDay == localDayNumber(parseDate(last))
                IN /\ lastDay = today => probe.result = streak
                   /\ lastDay = today - 1 => probe.result = streak + 1
                   /\ (lastDay < today - 1 \/ lastDay > today) => probe.result = 1

\* a streak of 4 continued from the day before, across a change of month
C9_Witness ==
    /\ probe.fn = "computeStreak"
    /\ probe.args[1] # <<>>
    /\ probe.args[2] = 4
    /\ localDayNumber(parseDate(probe.args[1])) = localDayNumber(probe.args[3]) - 1
    /\ getMonth(parseDate(probe.args[1])) # getMonth(probe.args[3])
    /\ probe.result = 5

\* the base values as the specification lists them
C10_Base(category) ==
    CASE category = "plastic" -> 10
      [] category = "paper" -> 8
      [] category = "glass" -> 12
      [] category = "metal" -> 12
      [] category = "organic" -> 6
      [] category = "e-waste" -> 20
      [] category = "textile" -> 10
      [] category = "hazardous" -> 25
      [] category = "unknown" -> 3

\* C10: calculatePoints is the category's base value, plus 5 iff
\* confidence >= 0.85, plus 5 * min(streak, 7) if streak > 0; the streak bonus
\* never exceeds 35; ('hazardous', 0.9, 3) gives 45 and ('organic', 0.5, 0) gives 6.
C10_CalculatePoints ==
    probe.fn = "calculatePoints" =>
        LET category == probe.args[1]
            confidence == probe.args[2]
            streak == probe.args[3]
            withoutStreak == C10_Base(category) + (IF confidence >= 85 THEN 5 ELSE 0)
            bonus == probe.result - withoutStreak
        IN /\ bonus = (IF streak > 0 THEN 5 * Min(streak, 7) ELSE 0)
           /\ bonus <= 35
           /\ probe.args = <<"hazardous", 90, 3>> => probe.result = 45
           /\ probe.args = <<"organic", 50, 0>> => probe.result = 6

\* a confidence of exactly 0.85 with a streak above the cap
C10_Witness ==
    /\ probe.fn = "calculatePoints"
    /\ probe.args[2] = 85
    /\ probe.args[3] > 7
    /\ probe.result = C10_Base(probe.args[1]) + 5 + 35

\* C11: fileComplaint computes the points from the streak after this filing:
\* the returned pointsAwarded is calculatePoints(category, confidence, newStreak)
\* with newStreak = computeStreak(profile.lastReportDate, profile.streak) of the
\* profile it read, it is the pointsAwarded of the created complaint, and the
\* profile it persists has streak = newStreak and lastReportDate = createdAt.
C11_PointsFromNewStreak ==
    [][\A c \in Calls :
          FileCompletes(c) =>
              LET loaded == getUserProfile(call[c].read, TRUE)
                  complaint == call[c].complaint[1]
                  newStreak == computeStreak(loaded.lastReportDate, loaded.streak,
                                             parseDate(complaint.createdAt))
              IN /\ call[c].pointsAwarded
                        = calculatePoints(call[c].wasteCategory, call[c].confidence,
                                          newStreak)
                 /\ complaint.pointsAwarded = call[c].pointsAwarded
                 /\ profileRec' # <<>>
                 /\ profileRec'[1].streak = newStreak
                 /\ profileRec'[1].lastReportDate = complaint.createdAt]_vars

\* a completed fileComplaint that continued a streak of 1 from the day before:
\* the streak bonus is that of the new streak 2
C11_Witness ==
    \E c \in Calls :
        /\ call[c].op = "file" /\ call[c].pc = "done"
        /\ call[c].read # <<>>
        /\ call[c].read[1].streak = 1
        /\ call[c].newStreak = 2
        /\ profileRec = <<call[c].profile>>
        /\ profileRec[1].streak = 2
        /\ call[c].pointsAwarded
               = calculatePoints(call[c].wasteCategory, call[c].confidence, 2)

\* ---------------------------------------- sequential filing, no write failure
\* fileComplaint is called only when no store operation is in flight, the clock
\* only advances, the reads may fail and the writes succeed
Quiescent == \A c \in Calls : ~InFlight(c)

NextSequential ==
    \/ \E c \in Calls, input \in FileInputs : Quiescent /\ FileComplaint(c, input)
    \/ \E c \in Calls, ok \in Outcomes, rand \in RandValues : FileGotProfile(c, ok, rand)
    \/ \E c \in Calls, ok \in Outcomes : FileGotComplaints(c, ok)
    \/ \E c \in Calls : FileSetComplaints(c, TRUE)
    \/ \E c \in Calls : SaveUserProfile(c, TRUE)
    \/ Tick

SpecSequential == Init /\ [][NextSequential]_vars

\* the local calendar day a stored timestamp falls on
dayOf(iso) == localDayNumber(parseDate(iso))

\* the number of consecutive days, ending with day, on each of which a
\* persisted complaint was created
RECURSIVE daysInARow(_)
daysInARow(day) ==
    IF \E i \in DOMAIN complaintsRec : dayOf(complaintsRec[i].createdAt) = day
    THEN 1 + daysInARow(day - 1)
    ELSE 0

\* C12: after any sequence of sequential fileComplaint calls with a
\* non-decreasing clock and no write failure, the persisted streak is the number
\* of consecutive local calendar days, ending with the day of lastReportDate, on
\* each of which at least one persisted complaint was created.
C12_StreakIsDaysInARow ==
    (Quiescent /\ profileRec # <<>>) =>
        profileRec[1].streak = daysInARow(dayOf(profileRec[1].lastReportDate))

\* C13: no two complaints of the persisted log ever have the same id.
C13_UniqueIds ==
    \A i, j \in DOMAIN complaintsRec :
        i # j => complaintsRec[i].id # complaintsRec[j].id

\* ------------------------------------------------- the read operations
\* the stores the read operations are called on
MaxReadLog == 3
ReadTimes == 0..2
ReadCategories == {"organic", "hazardous", "unknown"}
ReadPoints == {0, 11, 95, 140, 300, 580, 581}
ReadReports == {0, 2}

ReadComplaints ==
    {[id |-> <<t, 1>>, imageUri |-> 1, wasteCategory |-> cat, confidence |-> 50,
      pointsAwarded |-> 11, status |-> "pending", createdAt |-> toISOString(t)] :
        t \in ReadTimes, cat \in ReadCategories}

ReadLogs == UNION {[1..n -> ReadComplaints] : n \in 0..MaxReadLog}

ReadProfiles ==
    {<<>>} \cup
    {<<[id |-> "local-user", name |-> "Ann", totalPoints |-> p, totalReports |-> r,
        streak |-> r, lastReportDate |-> (IF r = 0 THEN <<>> ELSE toISOString(1))]>> :
        p \in ReadPoints, r \in ReadReports}

InitRead ==
    /\ profileRec \in ReadProfiles
    /\ complaintsRec \in ReadLogs
    /\ clock = 0
    /\ call = [c \in Calls |-> IdleCall]
    /\ pre = [c \in Calls |-> [profile |-> <<>>, log |-> <<>>]]
    /\ alone = [c \in Calls |-> TRUE]
    /\ started = 0
    /\ faults = 0
    /\ probe = NoProbe
    /\ classifier = IdleClassifier
    /\ screen = InitScreen

\* getComplaints() called; ok is the outcome of its storage read
CallGetComplaints(ok) ==
    /\ probe' = [fn |-> "getComplaints", args |-> <<ok>>,
                 result |-> getComplaints(complaintsRec, ok)]
    /\ UNCHANGED <<storeVars, classifier, screen>>

CallGetUserProfile_persists(ok) ==
    /\ probe' = [fn |-> "getUserProfile", args |-> <<ok>>,
                 result |-> getUserProfile(profileRec, ok)]
    /\ profileRec' = IF ok /\ profileRec = <<>> THEN <<DEFAULT_PROFILE>> ELSE profileRec
    /\ UNCHANGED <<complaintsRec, clock, call, pre, alone, started, faults, classifier, screen>>

\* getUserProfile() called; ok is the outcome of its storage read
CallGetUserProfile(ok) ==
    /\ probe' = [fn |-> "getUserProfile", args |-> <<ok>>,
                 result |-> getUserProfile(profileRec, ok)]
    /\ UNCHANGED <<storeVars, classifier, screen>>

\* complaints.find((c) => c.id === id) || null
findById(complaints, id) ==
    LET hits == {i \in DOMAIN complaints : complaints[i].id = id}
    IN IF hits = {} THEN <<>>
       ELSE <<complaints[CHOOSE i \in hits : \A j \in hits : i <= j]>>

\* getComplaintById(id) called; ok is the outcome of the read of getComplaints
CallGetComplaintById(id, ok) ==
    /\ probe' = [fn |-> "getComplaintById", args |-> <<id, ok>>,
                 result |-> findById(getComplaints(complaintsRec, ok), id)]
    /\ UNCHANGED <<storeVars, classifier, screen>>

\* the tally loop of getStats: categoryCounts[c] = (categoryCounts[c] || 0) + 1
RECURSIVE tallyCategories(_)
tallyCategories(complaints) ==
    IF complaints = <<>> THEN [c \in {} |-> 0]
    ELSE LET before == tallyCategories(SubSeq(complaints, 1, Len(complaints) - 1))
             cat == complaints[Len(complaints)].wasteCategory
         IN [c \in DOMAIN before \cup {cat} |->
                IF c = cat
                THEN (IF cat \in DOMAIN before THEN before[cat] ELSE 0) + 1
                ELSE before[c]]

getStats_fromLog(profileOk, logOk) ==
    LET profile == getUserProfile(profileRec, profileOk)
        complaints == getComplaints(complaintsRec, logOk)
    IN [totalReports |-> Len(complaints),
        totalPoints |-> profile.totalPoints,
        categoryCounts |-> tallyCategories(complaints),
        streak |-> profile.streak]

\* getStats; the two reads of its Promise.all succeed or fail independently
getStats(profileOk, logOk) ==
    LET profile == getUserProfile(profileRec, profileOk)
        complaints == getComplaints(complaintsRec, logOk)
    IN [totalReports |-> profile.totalReports,
        totalPoints |-> profile.totalPoints,
        categoryCounts |-> tallyCategories(complaints),
        streak |-> profile.streak]

\* getStats() called
CallGetStats(profileOk, logOk) ==
    /\ probe' = [fn |-> "getStats", args |-> <<profileOk, logOk>>,
                 result |-> getStats(profileOk, logOk)]
    /\ UNCHANGED <<storeVars, classifier, screen>>

\* the simulated community members of getLeaderboard
communityMembers ==
    <<[id |-> "u1", name |-> "GreenHero", totalPoints |-> 580, totalReports |-> 42,
       isCurrentUser |-> FALSE],
      [id |-> "u2", name |-> "EcoChamp", totalPoints |-> 445, totalReports |-> 35,
       isCurrentUser |-> FALSE],
      [id |-> "u3", name |-> "RecycleKing", totalPoints |-> 390, totalReports |-> 30,
       isCurrentUser |-> FALSE],
      [id |-> "u4", name |-> "WasteWatcher", totalPoints |-> 310, totalReports |-> 24,
       isCurrentUser |-> FALSE],
      [id |-> "u5", name |-> "CleanStreet", totalPoints |-> 275, totalReports |-> 21,
       isCurrentUser |-> FALSE],
      [id |-> "u6", name |-> "EarthGuard", totalPoints |-> 220, totalReports |-> 18,
       isCurrentUser |-> FALSE],
      [id |-> "u7", name |-> "TrashTracker", totalPoints |-> 180, totalReports |-> 14,
       isCurrentUser |-> FALSE],
      [id |-> "u8", name |-> "BinBuddy", totalPoints |-> 140, totalReports |-> 10,
       isCurrentUser |-> FALSE],
      [id |-> "u9", name |-> "ZeroWaste", totalPoints |-> 95, totalReports |-> 7,
       isCurrentUser |-> FALSE]>>

\* allEntries.sort((a, b) => b.totalPoints - a.totalPoints): stable, highest first
RECURSIVE insertByPoints_beforeEqual(_, _)
insertByPoints_beforeEqual(e, sorted) ==
    IF sorted = <<>> THEN <<e>>
    ELSE IF Head(sorted).totalPoints > e.totalPoints
         THEN <<Head(sorted)>> \o insertByPoints_beforeEqual(e, Tail(sorted))
         ELSE <<e>> \o sorted

RECURSIVE insertByPoints(_, _)
insertByPoints(e, sorted) ==
    IF sorted = <<>> THEN <<e>>
    ELSE IF Head(sorted).totalPoints >= e.totalPoints
         THEN <<Head(sorted)>> \o insertByPoints(e, Tail(sorted))
         ELSE <<e>> \o sorted

RECURSIVE sortByPointsDesc(_)
sortByPointsDesc(s) ==
    IF s = <<>> THEN <<>>
    ELSE insertByPoints(s[Len(s)], sortByPointsDesc(SubSeq(s, 1, Len(s) - 1)))

\* the ranks assigned by list position
withRanks_fromZero(entries) ==
    [i \in DOMAIN entries |->
        [id |-> entries[i].id, name |-> entries[i].name,
         totalPoints |-> entries[i].totalPoints,
         totalReports |-> entries[i].totalReports,
         isCurrentUser |-> entries[i].isCurrentUser, rank |-> i - 1]]

withRanks(entries) ==
    [i \in DOMAIN entries |->
        [id |-> entries[i].id, name |-> entries[i].name,
         totalPoints |-> entries[i].totalPoints,
         totalReports |-> entries[i].totalReports,
         isCurrentUser |-> entries[i].isCurrentUser, rank |-> i]]

\* getLeaderboard; ok is the outcome of the storage read of getUserProfile
getLeaderboard(ok) ==
    LET profile == getUserProfile(profileRec, ok)
        allEntries ==
            Append(communityMembers,
                   [id |-> profile.id, name |-> profile.name,
                    totalPoints |-> profile.totalPoints,
                    totalReports |-> profile.totalReports, isCurrentUser |-> TRUE])
    IN withRanks(sortByPointsDesc(allEntries))

\* getLeaderboard() called
CallGetLeaderboard(ok) ==
    /\ probe' = [fn |-> "getLeaderboard", args |-> <<ok>>,
                 result |-> getLeaderboard(ok)]
    /\ UNCHANGED <<storeVars, classifier, screen>>

NextRead ==
    \/ \E ok \in BOOLEAN : CallGetComplaints(ok)
    \/ \E ok \in BOOLEAN : CallGetUserProfile(ok)
    \/ \E profileOk \in BOOLEAN, logOk \in BOOLEAN : CallGetStats(profileOk, logOk)
    \/ \E ok \in BOOLEAN : CallGetLeaderboard(ok)
    \/ \E t \in ReadTimes, ok \in BOOLEAN : CallGetComplaintById(<<t, 1>>, ok)

SpecRead == InitRead /\ [][NextRead]_vars

\* how many elements of sequence s equal x
occurrences(s, x) == Cardinality({i \in DOMAIN s : s[i] = x})

\* C14: getComplaints() returns every persisted complaint exactly once, ordered
\* by createdAt descending; when the read or the parse fails, or no log exists,
\* it returns the empty sequence.
C14_GetComplaints ==
    probe.fn = "getComplaints" =>
        IF probe.args[1] /\ complaintsRec # <<>>
        THEN /\ Len(probe.result) = Len(complaintsRec)
             /\ \A i \in DOMAIN complaintsRec :
                    occurrences(probe.result, complaintsRec[i])
                        = occurrences(complaintsRec, complaintsRec[i])
             /\ \A i \in 1..(Len(probe.result) - 1) :
                    parseDate(probe.result[i].createdAt)
                        >= parseDate(probe.result[i + 1].createdAt)
        ELSE probe.result = <<>>

\* a stored log that is not in order, returned in order
C14_Witness ==
    /\ probe.fn = "getComplaints"
    /\ probe.args[1]
    /\ Len(complaintsRec) = 3
    /\ parseDate(complaintsRec[1].createdAt) < parseDate(complaintsRec[2].createdAt)
    /\ probe.result # complaintsRec
    /\ parseDate(probe.result[1].createdAt) > parseDate(probe.result[3].createdAt)

\* C15: getUserProfile() returns the persisted profile when one exists and is
\* readable, and otherwise (no record, or a read error) a default profile with
\* totalPoints = 0, totalReports = 0, streak = 0 and lastReportDate = null.
C15_GetUserProfile ==
    probe.fn = "getUserProfile" =>
        IF probe.args[1] /\ profileRec # <<>>
        THEN probe.result = profileRec[1]
        ELSE /\ probe.result.totalPoints = 0
             /\ probe.result.totalReports = 0
             /\ probe.result.streak = 0
             /\ probe.result.lastReportDate = <<>>

\* a read error on a store that holds a profile with points
C15_Witness ==
    /\ probe.fn = "getUserProfile"
    /\ ~probe.args[1]
    /\ profileRec # <<>>
    /\ profileRec[1].totalPoints > 0
    /\ probe.result.totalPoints = 0

\* the categories of the complaints of a log, and how many complaints have one
categoriesOf(log) == {log[i].wasteCategory : i \in DOMAIN log}
countOf(log, cat) == Cardinality({i \in DOMAIN log : log[i].wasteCategory = cat})

RECURSIVE sumOver(_, _)
sumOver(f, keys) ==
    IF keys = {} THEN 0
    ELSE LET k == CHOOSE x \in keys : TRUE IN f[k] + sumOver(f, keys \ {k})

\* the category counts of the result are the tally of log
countsTally(counts, log) ==
    /\ DOMAIN counts = categoriesOf(log)
    /\ \A cat \in DOMAIN counts : counts[cat] = countOf(log, cat)
    /\ sumOver(counts, DOMAIN counts) = Len(log)

\* C16, as stated: getStats() returns totalReports, totalPoints and streak
\* equal to the persisted profile's fields, and categoryCounts[c] is the number
\* of persisted complaints of category c, absent when there is none, so that
\* the counts sum to the log length.
C16_GetStatsAsStated ==
    probe.fn = "getStats" =>
        /\ probe.result.totalReports = persistedProfile.totalReports
        /\ probe.result.totalPoints = persistedProfile.totalPoints
        /\ probe.result.streak = persistedProfile.streak
        /\ countsTally(probe.result.categoryCounts, complaintsRec)

\* C16, amended: getStats() returns the totalReports, totalPoints and streak of
\* the profile getUserProfile() yields (the persisted profile when its read
\* succeeds, the default profile when it fails), not recomputed from the log,
\* and categoryCounts is the tally of the complaints getComplaints() yields (the
\* persisted ones when the read of the log succeeds, none when it fails).
C16_GetStats ==
    probe.fn = "getStats" =>
        LET loaded == IF probe.args[1] THEN persistedProfile ELSE DEFAULT_PROFILE
            listed == IF probe.args[2] THEN complaintsRec ELSE <<>>
        IN /\ probe.result.totalReports = loaded.totalReports
           /\ probe.result.totalPoints = loaded.totalPoints
           /\ probe.result.streak = loaded.streak
           /\ countsTally(probe.result.categoryCounts, listed)

\* both reads succeed on a store whose totalReports differs from the length
\* of its log, which has two complaints of one category and none of another
C16_Witness ==
    /\ probe.fn = "getStats"
    /\ probe.args = <<TRUE, TRUE>>
    /\ profileRec # <<>>
    /\ profileRec[1].totalReports = 2
    /\ Len(complaintsRec) = 3
    /\ probe.result.totalReports = 2
    /\ DOMAIN probe.result.categoryCounts = {"organic", "hazardous"}
    /\ probe.result.categoryCounts["hazardous"] = 2

\* the entry of the result that is the current user's
userEntries(board) == {i \in DOMAIN board : board[i].isCurrentUser}

\* the result has 10 entries sorted by totalPoints descending with ranks 1..10
\* in list order, and exactly one entry of the current user, carrying profile
leaderboardOf(board, profile) ==
    /\ Len(board) = 10
    /\ \A i \in 1..(Len(board) - 1) : board[i].totalPoints >= board[i + 1].totalPoints
    /\ \A i \in DOMAIN board : board[i].rank = i
    /\ Cardinality(userEntries(board)) = 1
    /\ \A i \in userEntries(board) :
           /\ board[i].id = profile.id
           /\ board[i].name = profile.name
           /\ board[i].totalPoints = profile.totalPoints
           /\ board[i].totalReports = profile.totalReports

\* C18, as stated: for every persisted profile, getLeaderboard() returns 10
\* entries sorted by totalPoints descending with ranks exactly 1, 2, ..., 10 in
\* list order, exactly one of them with isCurrentUser = true, carrying the
\* persisted profile's id, name, totalPoints and totalReports.
C18_LeaderboardAsStated ==
    (probe.fn = "getLeaderboard" /\ profileRec # <<>>) =>
        leaderboardOf(probe.result, profileRec[1])

\* C18, amended: the entry with isCurrentUser = true carries the id, name,
\* totalPoints and totalReports of the profile getUserProfile() yields: the
\* persisted profile when its read succeeds, the default profile when it fails.
C18_Leaderboard ==
    probe.fn = "getLeaderboard" =>
        leaderboardOf(probe.result,
                      IF probe.args[1] THEN persistedProfile ELSE DEFAULT_PROFILE)

\* the persisted profile is read and ranks in the middle of the board
C18_Witness ==
    /\ probe.fn = "getLeaderboard"
    /\ probe.args[1]
    /\ profileRec # <<>>
    /\ profileRec[1].totalPoints = 300
    /\ probe.result[5].isCurrentUser
    /\ probe.result[5].rank = 5
    /\ probe.result[5].name = "Ann"

\* C19: entries with equal totalPoints keep their pre-sort order: when the
\* profile's totalPoints equals a peer's, the user is ranked immediately after
\* that peer.
C19_TiesKeepOrder ==
    probe.fn = "getLeaderboard" =>
        \A u \in userEntries(probe.result) :
            \A i \in DOMAIN probe.result :
                (i # u /\ probe.result[i].totalPoints = probe.result[u].totalPoints)
                    => probe.result[u].rank = probe.result[i].rank + 1

\* the profile has the 580 points of the first peer and is ranked second
C19_Witness ==
    /\ probe.fn = "getLeaderboard"
    /\ probe.args[1]
    /\ profileRec # <<>>
    /\ profileRec[1].totalPoints = 580
    /\ probe.result[1].id = "u1"
    /\ probe.result[2].isCurrentUser
    /\ probe.result[2].rank = 2

\* the step at which updateUserName's saveUserProfile resolves and the call returns
NameCompletes(c) ==
    call[c].op = "name" /\ call[c].pc = "setProfile" /\ call'[c].pc = "done"

\* C17: updateUserName(name) changes only the display name: after it completes
\* the persisted profile's name is the given name, and totalPoints,
\* totalReports, streak and lastReportDate in storage are the same as they were
\* in storage immediately before its write, including when a fileComplaint runs
\* between its read and its write.
C17_OnlyNameChanges ==
    [][\A c \in Calls :
          NameCompletes(c) =>
              /\ profileRec' # <<>>
              /\ profileRec'[1].name = call[c].name
              /\ profileRec'[1].totalPoints = persistedProfile.totalPoints
              /\ profileRec'[1].totalReports = persistedProfile.totalReports
              /\ profileRec'[1].streak = persistedProfile.streak
              /\ profileRec'[1].lastReportDate = persistedProfile.lastReportDate]_vars

\* ------------------------------------------------------ waste classifier
\* Strings are TLA+ strings; confidences and the features of an image are in
\* hundredths, the scores of the Vision service in thousandths.
MaxLabels == 2

Digits == "0123456789"
Upper == "ABCDEFGHIJKLMNOPQRSTUVWXYZ"
Lower == "abcdefghijklmnopqrstuvwxyz"
Punctuation ==
    (" " :> 32) @@ ("-" :> 45) @@ ("." :> 46) @@ ("/" :> 47) @@ (":" :> 58) @@ ("_" :> 95)

\* the place of a character in a string, 0 when it is not there
indexIn(ch, s) ==
    IF \E i \in 1..Len(s) : SubSeq(s, i, i) = ch
    THEN CHOOSE i \in 1..Len(s) : SubSeq(s, i, i) = ch
    ELSE 0

\* String.prototype.charCodeAt of a one-character string
charCodeAt(ch) ==
    IF indexIn(ch, Digits) > 0 THEN 47 + indexIn(ch, Digits)
    ELSE IF indexIn(ch, Upper) > 0 THEN 64 + indexIn(ch, Upper)
    ELSE IF indexIn(ch, Lower) > 0 THEN 96 + indexIn(ch, Lower)
    ELSE Punctuation[ch]

\* String.prototype.toLowerCase
RECURSIVE toLowerCase(_)
toLowerCase(s) ==
    IF Len(s) = 0 THEN ""
    ELSE LET ch == SubSeq(s, 1, 1)
             low == IF indexIn(ch, Upper) > 0
                    THEN SubSeq(Lower, indexIn(ch, Upper), indexIn(ch, Upper))
                    ELSE ch
         IN low \o toLowerCase(SubSeq(s, 2, Len(s)))

\* String.prototype.includes
includes(s, kw) ==
    \E i \in 1..(Len(s) - Len(kw) + 1) : SubSeq(s, i, i + Len(kw) - 1) = kw

\* the element of a one-element set: binds a computed value once
only(S) == CHOOSE v \in S : TRUE

Two16 == 65536
MinInt32 == -2147483647 - 1

\* ((acc << 5) - acc + code) | 0: 31 * acc + code wrapped to a signed 32-bit
\* integer, computed on the two 16-bit halves of acc
hashStep(acc, code) ==
    LET hi == (acc \div Two16) % Two16
        lo == acc % Two16
        lo2 == 31 * lo + code
        hi2 == (31 * hi + (lo2 \div Two16)) % Two16
    IN (IF hi2 >= Two16 \div 2 THEN hi2 - Two16 ELSE hi2) * Two16 + (lo2 % Two16)

\* imageUri.split('').reduce(..., 0) over the first n characters
RECURSIVE hashOf(_, _)
hashOf(imageUri, n) ==
    IF n = 0 THEN 0
    ELSE only({hashStep(acc, charCodeAt(SubSeq(imageUri, n, n))) :
                  acc \in {hashOf(imageUri, n - 1)}})

absMod_int32(hash, m) ==
    IF hash >= 0 THEN hash % m ELSE
    IF hash = MinInt32 THEN -((((-(hash + 1)) % m) + 1) % m) ELSE (-hash) % m

\* Math.abs(hash) % m; Math.abs of the minimum integer is 2^31
absMod(hash, m) ==
    IF hash >= 0 THEN hash % m ELSE (((-(hash + 1)) % m) + 1) % m

\* (normalizedHash >> 8) % m: >> first converts to a signed 32-bit integer, so
\* 2^31 becomes the minimum integer again, and % keeps the sign of the dividend
shiftRem(hash, m) ==
    LET int32 == IF hash = MinInt32 THEN MinInt32 ELSE IF hash < 0 THEN -hash ELSE hash
        shifted == int32 \div 256
    IN IF shifted >= 0 THEN shifted % m ELSE -((-shifted) % m)

\* analyzeImageFeatures: dominantHue in degrees, brightness and saturation in
\* hundredths
analyzeImageFeatures(imageUri) ==
    only({[dominantHue |-> absMod(hash, 360),
           brightness |-> absMod(hash, 100),
           saturation |-> shiftRem(hash, 100)] : hash \in {hashOf(imageUri, Len(imageUri))}})

\* the keys of WASTE_DATA
WASTE_DATA == WasteCategories

LABEL_TO_CATEGORY ==
    <<[category |-> "plastic",
       keywords |-> {"plastic", "bottle", "polythene", "polyethylene", "container",
                     "packaging", "wrapper", "bag", "cup", "straw", "lid", "polymer",
                     "pet bottle", "plastic bag", "plastic wrap"}],
      [category |-> "paper",
       keywords |-> {"paper", "cardboard", "newspaper", "magazine", "carton", "book",
                     "envelope", "tissue", "napkin", "document"}],
      [category |-> "glass",
       keywords |-> {"glass", "jar", "wine bottle", "beer bottle", "glass bottle",
                     "mirror", "window"}],
      [category |-> "metal",
       keywords |-> {"metal", "aluminum", "aluminium", "tin", "can", "steel", "iron",
                     "copper", "foil", "scrap metal", "beverage can"}],
      [category |-> "organic",
       keywords |-> {"food", "fruit", "vegetable", "plant", "leaf", "flower", "compost",
                     "wood", "biodegradable", "garden waste", "yard waste", "coffee",
                     "banana", "apple", "bread", "meat", "egg"}],
      [category |-> "e-waste",
       keywords |-> {"electronic", "circuit board", "battery", "cable", "computer",
                     "phone", "laptop", "keyboard", "monitor", "charger", "wire",
                     "gadget", "device", "motherboard", "smartphone", "tablet"}],
      [category |-> "textile",
       keywords |-> {"textile", "fabric", "clothing", "shirt", "shoe", "cloth",
                     "garment", "cotton", "denim", "leather", "wool", "jacket",
                     "pants", "dress", "sock"}],
      [category |-> "hazardous",
       keywords |-> {"chemical", "paint", "solvent", "pesticide", "medical", "syringe",
                     "aerosol", "bleach", "acid", "poison", "toxic", "biohazard",
                     "fluorescent", "oil"}]>>

labelMatches_wholeLabel(label, entry) ==
    \E desc \in {toLowerCase(label.description)} : desc \in entry.keywords

\* the label's lowercased description includes a keyword of the entry
labelMatches(label, entry) ==
    \E desc \in {toLowerCase(label.description)} :
        \E kw \in entry.keywords : includes(desc, kw)

\* scores[entry.category] after one more label
scoreLabel(before, label, entry) ==
    IF ~labelMatches(label, entry) THEN before
    ELSE [count |-> before.count + 1,
          maxScore |-> IF label.score > before.maxScore
                       THEN label.score ELSE before.maxScore,
          bestLabel |-> IF label.score > before.maxScore
                        THEN label.description ELSE before.bestLabel]

\* scores[entry.category] after the first n labels
RECURSIVE scoresOf(_, _, _)
scoresOf(entry, labels, n) ==
    IF n = 0 THEN [count |-> 0, maxScore |-> 0, bestLabel |-> ""]
    ELSE only({scoreLabel(before, labels[n], entry) :
                  before \in {scoresOf(entry, labels, n - 1)}})

pickBest_countOnly(before, entry, sc) ==
    IF sc.count > 0 /\ sc.count >= before.bestCount
    THEN [best |-> entry.category, bestCount |-> sc.count,
          bestScore |-> sc.maxScore, bestLabel |-> sc.bestLabel]
    ELSE before

\* best, bestCount, bestScore and bestLabel after one more entry with scores sc
pickBest(before, entry, sc) ==
    IF \/ sc.count > before.bestCount
       \/ (sc.count = before.bestCount /\ sc.maxScore > before.bestScore)
    THEN [best |-> entry.category, bestCount |-> sc.count,
          bestScore |-> sc.maxScore, bestLabel |-> sc.bestLabel]
    ELSE before

\* best, bestCount, bestScore and bestLabel after the first k entries
RECURSIVE bestOf(_, _)
bestOf(labels, k) ==
    IF k = 0
    THEN [best |-> "unknown", bestCount |-> 0, bestScore |-> 0, bestLabel |-> ""]
    ELSE only({pickBest(before, LABEL_TO_CATEGORY[k], sc) :
                  before \in {bestOf(labels, k - 1)},
                  sc \in {scoresOf(LABEL_TO_CATEGORY[k], labels, Len(labels))}})

\* Math.round(x * 100) / 100 of a number of thousandths, in hundredths
roundToHundredths(x) == (x + 5) \div 10

Max(a, b) == IF a > b THEN a ELSE b

mapLabelsToCategory(labels) ==
    only({IF b.bestCount = 0
          THEN [category |-> "unknown", confidence |-> 50,
                bestLabel |-> IF labels # <<>> THEN labels[1].description ELSE ""]
          ELSE [category |-> b.best,
                confidence |-> Min(100, Max(0, roundToHundredths(b.bestScore))),
                bestLabel |-> b.bestLabel] :
          b \in {bestOf(labels, Len(LABEL_TO_CATEGORY))}})

\* the heuristic fallback of classifyWaste
heuristicCategories ==
    <<"plastic", "paper", "glass", "metal", "organic", "e-waste", "textile", "hazardous">>

heuristicOf(features) ==
    LET categoryIndex == (features.dominantHue * Len(heuristicCategories)) \div 360
        category == IF categoryIndex + 1 \in DOMAIN heuristicCategories
                    THEN heuristicCategories[categoryIndex + 1] ELSE "unknown"
        confidence == Min(950, Max(600, 700 + features.saturation * 2 + features.brightness))
    IN [category |-> category, confidence |-> roundToHundredths(confidence)]

heuristicResult_timed(imageUri) ==
    only({[category |-> r.category, confidence |-> Min(95, r.confidence + clock)] :
             r \in {heuristicOf(analyzeImageFeatures(imageUri))}})

heuristicResult(imageUri) ==
    only({heuristicOf(features) : features \in {analyzeImageFeatures(imageUri)}})

\* the result of the Vision path for the labels merged from the response
visionResult(labels) ==
    only({IF m.category \notin WASTE_DATA
          THEN [category |-> "unknown", confidence |-> 50]
          ELSE [category |-> m.category, confidence |-> m.confidence] :
          m \in {mapLabelsToCategory(labels)}})

\* the image references the camera hands over, and what the service answers
ImageUris ==
    {"", "GydZG_", "file:///a1.jpg", "content://media/12", "IMG_0001.JPG"}
SampleLabels ==
    {[description |-> "Tin can", score |-> 912],
     [description |-> "Painting", score |-> 1000],
     [description |-> "Sky", score |-> 994],
     [description |-> "Glass", score |-> 0]}
LabelLists == UNION {[1..n -> SampleLabels] : n \in 0..MaxLabels}
VisionResponses ==
    {r \in [labelAnnotations : LabelLists, localizedObjectAnnotations : LabelLists] :
        Len(r.labelAnnotations) + Len(r.localizedObjectAnnotations) <= MaxLabels}

\* where the catch of classifyWaste continues: the warning, then the fallback
catchVision_rethrow == "rejected"

catchVision == "timeout"

\* classifyWaste(imageUri) called: without an API key it warns and waits for
\* the fallback's timer, with one it awaits imageToBase64
ClassifyWaste(imageUri) ==
    /\ classifier.pc \in {"idle", "done"}
    /\ classifier' =
           [classifier EXCEPT !.pc = IF classifier.key THEN "imageToBase64" ELSE "timeout",
                              !.imageUri = imageUri,
                              !.fallback = IF classifier.key THEN "none" ELSE "noKey",
                              !.result = <<>>]
    /\ UNCHANGED <<storeVars, probe, screen>>

\* imageToBase64 settles: the file is read, or reading it throws
ImageToBase64(ok) ==
    /\ classifier.pc = "imageToBase64"
    /\ classifier' = IF ok THEN [classifier EXCEPT !.pc = "fetch"]
                     ELSE [classifier EXCEPT !.pc = catchVision, !.fallback = "imageRead"]
    /\ UNCHANGED <<storeVars, probe, screen>>

\* fetch settles: it rejects, or resolves with a response that is ok or not;
\* response is the body of a response that is ok
Fetch(outcome, response) ==
    /\ classifier.pc = "fetch"
    /\ classifier' =
           CASE outcome = "rejected" ->
                    [classifier EXCEPT !.pc = catchVision, !.fallback = "network"]
             [] outcome = "notOk" -> [classifier EXCEPT !.pc = "responseText"]
             [] outcome = "ok" ->
                    [classifier EXCEPT !.pc = "responseJson", !.response = <<response>>]
    /\ UNCHANGED <<storeVars, probe, screen>>

\* response.text() of a response that is not ok settles, and the error is thrown
ResponseText ==
    /\ classifier.pc = "responseText"
    /\ classifier' = [classifier EXCEPT !.pc = catchVision, !.fallback = "http"]
    /\ UNCHANGED <<storeVars, probe, screen>>

ResponseJson_mapsEmpty(ok) ==
    /\ classifier.pc = "responseJson"
    /\ \E response \in {classifier.response[1]} :
           LET labels == response.labelAnnotations \o response.localizedObjectAnnotations
           IN classifier' =
                  IF ~ok
                  THEN [classifier EXCEPT !.pc = catchVision, !.fallback = "json",
                                          !.response = <<>>]
                  ELSE [classifier EXCEPT !.pc = "done", !.response = <<>>,
                                          !.result = <<visionResult(labels)>>]
    /\ UNCHANGED <<storeVars, probe, screen>>

\* response.json() settles: parsing throws, or the labels are merged and
\* mapped, and an empty list of labels is thrown as an error
ResponseJson(ok) ==
    /\ classifier.pc = "responseJson"
    /\ \E response \in {classifier.response[1]} :
           LET labels == response.labelAnnotations \o response.localizedObjectAnnotations
           IN classifier' =
                  IF ~ok
                  THEN [classifier EXCEPT !.pc = catchVision, !.fallback = "json",
                                          !.response = <<>>]
                  ELSE IF Len(labels) = 0
                       THEN [classifier EXCEPT !.pc = catchVision, !.fallback = "noLabels",
                                               !.response = <<>>]
                       ELSE [classifier EXCEPT !.pc = "done", !.response = <<>>,
                                               !.result = <<visionResult(labels)>>]
    /\ UNCHANGED <<storeVars, probe, screen>>

\* the heuristic call before this one, when it was for the same image
\* reference: its result, and the time and the store it ran in
earlierHeuristic(imageUri) ==
    IF probe.fn = "heuristicFallback" /\ probe.args[1] = imageUri
    THEN <<[result |-> probe.result, clock |-> probe.args[2], store |-> probe.args[3]]>>
    ELSE <<>>

\* the fallback's timer fires; analyzeImageFeatures resolves at once. The
\* probe keeps this heuristic call and the one before it for the same reference
HeuristicFallback ==
    /\ classifier.pc = "timeout"
    /\ \E imageUri \in {classifier.imageUri} :
           \E result \in {heuristicResult(imageUri)} :
               /\ classifier' = [classifier EXCEPT !.pc = "done", !.result = <<result>>]
               /\ probe' = [fn |-> "heuristicFallback",
                            args |-> <<imageUri, clock, snapshot,
                                       earlierHeuristic(imageUri)>>,
                            result |-> result]
    /\ UNCHANGED <<storeVars, screen>>

\* the build has an API key or has none
InitClassify ==
    /\ profileRec = <<>>
    /\ complaintsRec = <<>>
    /\ clock = 0
    /\ call = [c \in Calls |-> IdleCall]
    /\ pre = [c \in Calls |-> [profile |-> <<>>, log |-> <<>>]]
    /\ alone = [c \in Calls |-> TRUE]
    /\ started = 0
    /\ faults = 0
    /\ probe = NoProbe
    /\ \E key \in BOOLEAN : classifier = [IdleClassifier EXCEPT !.key = key]
    /\ screen = InitScreen

\* the steps of a classifyWaste call in flight
ClassifySettles ==
    \/ \E ok \in BOOLEAN : ImageToBase64(ok)
    \/ \E outcome \in {"rejected", "notOk"} : Fetch(outcome, <<>>)
    \/ \E response \in VisionResponses : Fetch("ok", response)
    \/ ResponseText
    \/ \E ok \in BOOLEAN : ResponseJson(ok)
    \/ HeuristicFallback

NextClassify ==
    \/ \E imageUri \in ImageUris : ClassifyWaste(imageUri)
    \/ ClassifySettles

\* every awaited promise and the timer eventually settle
SpecClassify == InitClassify /\ [][NextClassify]_vars /\ WF_vars(ClassifySettles)

\* C20: classifyWaste never propagates a failure to its caller: whether the API
\* key is absent, reading the image fails, the network call fails, the HTTP
\* status is not 2xx or the service returns zero labels, the call eventually
\* completes with a result whose category is one of the nine WasteCategory
\* values and whose confidence is in [0,1].
C20_ClassifyNeverFails ==
    /\ [](/\ classifier.pc # "rejected"
          /\ classifier.pc = "done" =>
                 /\ classifier.result[1].category \in WasteCategories
                 /\ classifier.result[1].confidence \in 0..100)
    /\ (classifier.pc \notin {"idle", "done"}) ~> (classifier.pc = "done")

\* a call whose request got a status that is not 2xx has completed with the
\* result of the heuristic
C20_Witness ==
    /\ classifier.pc = "done"
    /\ classifier.key
    /\ classifier.fallback = "http"
    /\ classifier.imageUri = "GydZG_"
    /\ classifier.result = <<[category |-> "glass", confidence |-> 73]>>

\* ------------------------------------------- the label-to-category mapping
\* the label sets the mapping is called with: descriptions that match no, one
\* or two categories, with scores of 0, 0.875 and 0.996
MapDescriptions ==
    {"Sky", "Tin can", "Painting", "Glass bottle", "Plastic bag", "Newspaper"}
MapScores == {0, 875, 996}
MapLabels == [description : MapDescriptions, score : MapScores]
MapLabelLists == UNION {[1..n -> MapLabels] : n \in 0..MaxLabels}

\* mapLabelsToCategory(labels) called; one call is observed
CallMapLabelsToCategory(labels) ==
    /\ probe = NoProbe
    /\ probe' = [fn |-> "mapLabelsToCategory", args |-> <<labels>>,
                 result |-> mapLabelsToCategory(labels)]
    /\ UNCHANGED <<storeVars, classifier, screen>>

NextMap == \E labels \in MapLabelLists : CallMapLabelsToCategory(labels)

SpecMap == Init /\ [][NextMap]_vars

\* the labels of a set whose lowercased description contains a keyword of entry
matching(labels, entry) ==
    {i \in DOMAIN labels :
        \E desc \in {toLowerCase(labels[i].description)} :
            \E kw \in entry.keywords : includes(desc, kw)}

\* the entries of LABEL_TO_CATEGORY with a category
entriesOf(category) ==
    {k \in DOMAIN LABEL_TO_CATEGORY : LABEL_TO_CATEGORY[k].category = category}

\* C21: for every label set in which at least one label's lowercased
\* description contains a keyword of some category, the mapping returns a
\* category other than unknown whose keyword list contains a substring of the
\* lowercased description of some label of the set, with confidence in [0,1].
C21_MatchGivesCategory ==
    (/\ probe.fn = "mapLabelsToCategory"
     /\ \E k \in DOMAIN LABEL_TO_CATEGORY :
            matching(probe.args[1], LABEL_TO_CATEGORY[k]) # {}) =>
        /\ probe.result.category # "unknown"
        /\ \E k \in entriesOf(probe.result.category) :
               matching(probe.args[1], LABEL_TO_CATEGORY[k]) # {}
        /\ probe.result.confidence \in 0..100

\* a label without a match and a label with one: the matching one decides
C21_Witness ==
    /\ probe.fn = "mapLabelsToCategory"
    /\ probe.args[1] = <<[description |-> "Sky", score |-> 996],
                         [description |-> "Tin can", score |-> 875]>>
    /\ probe.result.category = "metal"
    /\ probe.result.confidence = 88

\* the labels classifyWaste merges from the response it is about to parse
mergedLabels ==
    IF classifier.response = <<>> THEN <<>>
    ELSE classifier.response[1].labelAnnotations
             \o classifier.response[1].localizedObjectAnnotations

\* no label of the set matches a keyword of any category
noMatch(labels) ==
    \A k \in DOMAIN LABEL_TO_CATEGORY : matching(labels, LABEL_TO_CATEGORY[k]) = {}

\* the step at which response.json() resolves with the parsed response
JsonParsed ==
    /\ classifier.pc = "responseJson"
    /\ classifier'.pc # "responseJson"
    /\ classifier'.fallback # "json"

unknownHalf == <<[category |-> "unknown", confidence |-> 50]>>

\* C22, as stated: on the Vision path, classify returns category unknown with
\* confidence exactly 0.5 both when the returned label set is empty and when
\* it is non-empty but no label matches any keyword.
C22_UnknownAsStated ==
    [][(JsonParsed /\ noMatch(mergedLabels)) =>
           (classifier'.pc = "done" /\ classifier'.result = unknownHalf)]_vars

\* C22, amended: when the returned label set is non-empty but no label matches
\* any keyword, classifyWaste returns unknown with confidence exactly 0.5; when
\* the label set is empty it throws inside the try and falls through to the
\* heuristic, whose result is never unknown and has a confidence in
\* [0.60, 0.95].
C22_Unknown ==
    /\ [][JsonParsed =>
             /\ (mergedLabels # <<>> /\ noMatch(mergedLabels)) =>
                    (classifier'.pc = "done" /\ classifier'.result = unknownHalf)
             /\ mergedLabels = <<>> =>
                    (classifier'.pc = "timeout" /\ classifier'.fallback = "noLabels")]_vars
    /\ []((classifier.pc = "done" /\ classifier.fallback = "noLabels") =>
             /\ classifier.result = <<heuristicResult(classifier.imageUri)>>
             /\ classifier.result[1].category # "unknown"
             /\ classifier.result[1].confidence \in 60..95)

\* a call whose response held no label has completed with the heuristic's result
C22_Witness ==
    /\ classifier.pc = "done"
    /\ classifier.fallback = "noLabels"
    /\ classifier.imageUri = "IMG_0001.JPG"
    /\ classifier.result = <<[category |-> "textile", confidence |-> 88]>>

\* the highest score among the labels of a set that match entry, 0 without one
topScore(labels, entry) ==
    LET scores == {labels[i].score : i \in matching(labels, entry)}
    IN IF scores = {} THEN 0 ELSE CHOOSE x \in scores : \A y \in scores : x >= y

\* the mapping counted each label once for each category it matches, and
\* selected entry k: no entry has more matches, and none with as many matches
\* has a higher best score
selectedBy(labels, k) ==
    /\ \A j \in DOMAIN LABEL_TO_CATEGORY :
           /\ scoresOf(LABEL_TO_CATEGORY[j], labels, Len(labels)).count
                  = Cardinality(matching(labels, LABEL_TO_CATEGORY[j]))
           /\ Cardinality(matching(labels, LABEL_TO_CATEGORY[j]))
                  <= Cardinality(matching(labels, LABEL_TO_CATEGORY[k]))
           /\ Cardinality(matching(labels, LABEL_TO_CATEGORY[j]))
                  = Cardinality(matching(labels, LABEL_TO_CATEGORY[k]))
                  => topScore(labels, LABEL_TO_CATEGORY[j])
                         <= topScore(labels, LABEL_TO_CATEGORY[k])

\* the result carries the score, rounded to two decimals, and the description
\* of a highest-scoring label that matches entry k
carriesTopLabel(result, labels, k) ==
    /\ result.confidence = roundToHundredths(topScore(labels, LABEL_TO_CATEGORY[k]))
    /\ \E i \in matching(labels, LABEL_TO_CATEGORY[k]) :
           /\ labels[i].score = topScore(labels, LABEL_TO_CATEGORY[k])
           /\ result.bestLabel = labels[i].description

\* a call of the mapping with a label set that has a match
MappedWithMatch ==
    /\ probe.fn = "mapLabelsToCategory"
    /\ ~noMatch(probe.args[1])

\* C23, as stated: the mapping counts each label at most once per category,
\* selects the category with the highest match count, among categories tied on
\* match count one with the highest best score, and the returned confidence and
\* best label are those of the highest-scoring matching label of the selected
\* category.
C23_SelectionAsStated ==
    MappedWithMatch =>
        \E k \in entriesOf(probe.result.category) :
            /\ selectedBy(probe.args[1], k)
            /\ carriesTopLabel(probe.result, probe.args[1], k)

\* C23, amended: the returned confidence and best label are those of the
\* highest-scoring matching label of the selected category when that score is
\* greater than 0; when every matching label of the selected category has
\* score 0 the confidence is 0 and the best label is the empty string.
C23_Selection ==
    MappedWithMatch =>
        \E k \in entriesOf(probe.result.category) :
            /\ selectedBy(probe.args[1], k)
            /\ IF topScore(probe.args[1], LABEL_TO_CATEGORY[k]) > 0
               THEN carriesTopLabel(probe.result, probe.args[1], k)
               ELSE probe.result.confidence = 0 /\ probe.result.bestLabel = ""

\* two categories with one match each: the one with the higher score wins
C23_Witness ==
    /\ probe.fn = "mapLabelsToCategory"
    /\ probe.args[1] = <<[description |-> "Plastic bag", score |-> 875],
                         [description |-> "Newspaper", score |-> 996]>>
    /\ probe.result = [category |-> "paper", confidence |-> 100,
                       bestLabel |-> "Newspaper"]

\* ------------------------------------------------- the heuristic fallback
\* classifyWaste calls that take the heuristic path (no API key, or a failure
\* of the Vision path), while the clock advances and updateUserName calls
\* change the store
HeuristicUris == {"", "GydZG_", "IMG_0001.JPG"}
NoAnnotations == [labelAnnotations |-> <<>>, localizedObjectAnnotations |-> <<>>]

NextHeuristic ==
    \/ \E imageUri \in HeuristicUris : ClassifyWaste(imageUri)
    \/ \E ok \in BOOLEAN : ImageToBase64(ok)
    \/ \E outcome \in {"rejected", "notOk"} : Fetch(outcome, <<>>)
    \/ Fetch("ok", NoAnnotations)
    \/ ResponseText
    \/ \E ok \in BOOLEAN : ResponseJson(ok)
    \/ HeuristicFallback
    \/ Tick
    \/ \E c \in Calls, name \in Names : Quiescent /\ UpdateUserName(c, name)
    \/ \E c \in Calls : NameGotProfile(c, TRUE)
    \/ \E c \in Calls : call[c].op = "name" /\ SaveUserProfile(c, TRUE)

SpecHeuristic == InitClassify /\ [][NextHeuristic]_vars

MaxParts == 3
UriParts == {"", "f:/", "IMG", "_0", "a1", ".jp"}

RECURSIVE urisOf(_)
urisOf(n) == IF n = 0 THEN {""} ELSE {part \o uri : part \in UriParts, uri \in urisOf(n - 1)}

ExtremeUris == {"GydZG_", "GydZGa", "GydZGZ"}
ManyUris == urisOf(MaxParts) \cup ExtremeUris

\* one observed run of the heuristic fallback of classifyWaste
CallHeuristic(imageUri) ==
    /\ probe = NoProbe
    /\ \E hash \in {hashOf(imageUri, Len(imageUri))} :
           probe' = [fn |-> "heuristic",
                     args |-> <<imageUri, hash>>,
                     result |-> [features |-> analyzeImageFeatures(imageUri),
                                 result |-> heuristicResult(imageUri)]]
    /\ UNCHANGED <<storeVars, classifier, screen>>

NextManyUris == \E imageUri \in ManyUris : CallHeuristic(imageUri)

SpecManyUris == Init /\ [][NextManyUris]_vars

\* C25: for every image reference string (including one whose 32-bit hash is
\* the minimum integer), the heuristic fallback selects one of the 8
\* non-unknown categories at index floor(hue/360 * 8) with hue in 0..359, never
\* returns unknown, and returns a confidence in [0.60, 0.95].
C25_HeuristicInRange ==
    probe.fn = "heuristic" =>
        LET hue == probe.result.features.dominantHue
            result == probe.result.result
        IN /\ hue \in 0..359
           /\ (hue * 8) \div 360 \in 0..7
           /\ result.category = heuristicCategories[((hue * 8) \div 360) + 1]
           /\ result.category # "unknown"
           /\ result.confidence \in 60..95

\* the reference whose hash is the minimum integer: its saturation is negative,
\* its hue is 2^31 % 360 = 128, and the heuristic answers glass at 0.73
C25_Witness ==
    /\ probe.fn = "heuristic"
    /\ probe.args = <<"GydZG_", MinInt32>>
    /\ probe.result.features = [dominantHue |-> 128, brightness |-> 48, saturation |-> -8]
    /\ probe.result.result = [category |-> "glass", confidence |-> 73]

\* ------------------------------------ sequential calls, reliable storage
\* fileComplaint and updateUserName calls that start only when no call is in
\* flight, with every storage read and write succeeding
NextReliable ==
    \/ \E c \in Calls, input \in FileInputs : Quiescent /\ FileComplaint(c, input)
    \/ \E c \in Calls, name \in Names : Quiescent /\ UpdateUserName(c, name)
    \/ \E c \in Calls, rand \in RandValues : FileGotProfile(c, TRUE, rand)
    \/ \E c \in Calls : FileGotComplaints(c, TRUE)
    \/ \E c \in Calls : FileSetComplaints(c, TRUE)
    \/ \E c \in Calls : NameGotProfile(c, TRUE)
    \/ \E c \in Calls : SaveUserProfile(c, TRUE)
    \/ Tick
    \/ ClockSetBack

SpecReliable == Init /\ [][NextReliable]_vars

\* the sum of pointsAwarded over the first n complaints of a log
RECURSIVE sumAwarded(_, _)
sumAwarded(log, n) == IF n = 0 THEN 0 ELSE log[n].pointsAwarded + sumAwarded(log, n - 1)

\* C26: in every state reached by sequential (non-overlapping) fileComplaint
\* and updateUserName calls with no storage failure, the persisted profile's
\* totalPoints equals the sum of pointsAwarded over all complaints in the
\* persisted log.
C26_PointsAreLogSum ==
    Quiescent => persistedProfile.totalPoints = sumAwarded(persistedLog, Len(persistedLog))

\* a complaint is persisted, a rename after it has returned, and the points
\* are the complaint's award
C26_Witness ==
    /\ Quiescent
    /\ Len(persistedLog) = 1
    /\ persistedProfile.name = "Ann"
    /\ persistedProfile.totalPoints = persistedLog[1].pointsAwarded
    /\ persistedProfile.totalPoints > 0
    /\ \E c \in Calls : call[c].op = "name" /\ call[c].pc = "done"

\* ------------------------------------------- streak and award invariants
\* some fileComplaint has persisted its profile and returned
filePersisted == \E c \in Calls : call[c].op = "file" /\ call[c].pc = "done"

\* the awards computed so far: those in the persisted log and those of the
\* fileComplaint calls past their computation
awardsInRange ==
    /\ \A i \in DOMAIN persistedLog : persistedLog[i].pointsAwarded \in 8..65
    /\ \A c \in Calls :
           (call[c].op = "file" /\ call[c].pc \in {"getLog", "setLog", "setProfile", "done"})
               => call[c].pointsAwarded \in 8..65

streakZeroIffNoReport ==
    persistedProfile.streak = 0 <=> persistedProfile.lastReportDate = <<>>

\* C27: in every state reached from an empty store by fileComplaint and
\* updateUserName calls, the persisted profile has streak = 0 if and only if
\* lastReportDate is null; once any fileComplaint has persisted its profile,
\* streak >= 1, so every fileComplaint awards at least 8 points (base 3 +
\* streak bonus 5) and at most 65.
C27_StreakAndAwards ==
    /\ streakZeroIffNoReport
    /\ filePersisted => persistedProfile.streak >= 1
    /\ awardsInRange

\* ------------------------------------------------ read failures and data
\* every complaint of the log before is in the log after
keepsComplaints(before, after) ==
    \A i \in DOMAIN before : \E j \in DOMAIN after : after[j] = before[i]

\* C28: a storage read failure during fileComplaint (the profile read or the
\* complaint-log read returning an error or unparsable data) never loses
\* previously persisted data: after the call, every complaint that was in the
\* persisted log before is still in it, and the persisted totalPoints is not
\* lower than before.
C28_ReadFailureKeepsData ==
    [][\A c \in Calls :
          FileCompletes(c) =>
              /\ keepsComplaints(getComplaints(pre[c].log, TRUE),
                                 getComplaints(complaintsRec', TRUE))
              /\ getUserProfile(profileRec', TRUE).totalPoints
                     >= getUserProfile(pre[c].profile, TRUE).totalPoints]_vars

\* ----------------------------------------------- reads leave the store
\* C29: the read operations getUserProfile, getComplaints, getComplaintById,
\* getStats and getLeaderboard leave both persisted records unchanged; in
\* particular getUserProfile on an empty store returns a default profile
\* without persisting it, so the profile record stays absent until the first
\* fileComplaint or updateUserName write.
C29_ReadsLeaveStore ==
    [][/\ probe'.fn \in {"getUserProfile", "getComplaints", "getComplaintById",
                         "getStats", "getLeaderboard"}
       /\ profileRec' = profileRec
       /\ complaintsRec' = complaintsRec
       /\ (probe'.fn = "getUserProfile" /\ profileRec = <<>>) =>
              (probe'.result = DEFAULT_PROFILE /\ profileRec' = <<>>)]_vars

\* getUserProfile has returned the default profile and no profile is stored
C29_Witness ==
    /\ probe.fn = "getUserProfile"
    /\ probe.args = <<TRUE>>
    /\ probe.result = DEFAULT_PROFILE
    /\ profileRec = <<>>
    /\ complaintsRec # <<>>

\* -------------------------------------------------------- the scan screen
MaxCaptures == 2

\* photo.uri of the n-th picture taken
PhotoUris == <<"IMG_0001.JPG", "GydZG_", "file:///a1.jpg">>

\* getCurrentLocation(): a location, or null
GeoLocations == {<<>>, <<"geo">>}

\* the render branch `scanState === 'result' && result && capturedUri`
resultShown ==
    screen.scanState = "result" /\ screen.result # <<>> /\ screen.capturedUri # 0

\* the camera view is rendered: neither the result view nor the processing view
cameraShown == ~resultShown /\ screen.scanState # "processing"

\* a fileComplaint that has settled resumes its handler before any other
\* event is handled
noPending == \A c \in screen.awaiting : InFlight(c)

\* the shutter is pressed in the camera view: takePictureAsync is awaited
HandleCapture ==
    /\ noPending
    /\ cameraShown
    /\ screen.capture = "idle"
    /\ screen.photo < MaxCaptures
    /\ screen' = [screen EXCEPT !.capture = "takePicture", !.photo = screen.photo + 1]
    /\ UNCHANGED <<storeVars, probe, classifier>>

\* takePictureAsync settles: with a photo (classifyWaste and getCurrentLocation
\* are called and awaited), with no photo, or by throwing
TakePicture(outcome) ==
    /\ noPending
    /\ screen.capture = "takePicture"
    /\ classifier.pc \in {"idle", "done"}
    /\ screen' =
           CASE outcome = "photo" ->
                    [screen EXCEPT !.capturedUri = screen.photo,
                                   !.scanState = "processing", !.capture = "classify"]
             [] outcome = "none" -> [screen EXCEPT !.capture = "idle"]
             [] outcome = "throws" ->
                    [screen EXCEPT !.scanState = "camera", !.capture = "idle"]
    /\ classifier' =
           IF outcome = "photo"
           THEN [classifier EXCEPT
                    !.pc = IF classifier.key THEN "imageToBase64" ELSE "timeout",
                    !.imageUri = PhotoUris[screen.photo],
                    !.fallback = IF classifier.key THEN "none" ELSE "noKey",
                    !.result = <<>>]
           ELSE classifier
    /\ UNCHANGED <<storeVars, probe>>

\* Promise.all resolves: the classification and the location are set and the
\* result view is shown
CaptureResolves(geoLocation) ==
    /\ noPending
    /\ screen.capture = "classify"
    /\ classifier.pc = "done"
    /\ screen' = [screen EXCEPT !.result = classifier.result,
                                !.location = geoLocation,
                                !.scanState = "result", !.capture = "idle"]
    /\ UNCHANGED <<storeVars, probe, classifier>>

\* Submit Complaint pressed (shown while not submitted, enabled with a
\* location and while not submitting): fileComplaint is called and awaited
HandleSubmitReport(c) ==
    /\ noPending
    /\ resultShown
    /\ ~screen.submitted
    /\ screen.location # <<>>
    /\ ~screen.isSubmitting
    /\ Free(c)
    /\ started < MaxCalls
    /\ screen' = [screen EXCEPT !.isSubmitting = TRUE,
                                !.awaiting = screen.awaiting \cup {c}]
    /\ call' = [call EXCEPT ![c] =
                  [IdleCall EXCEPT !.pc = "getProfile", !.op = "file",
                                   !.wasteCategory = screen.result[1].category,
                                   !.confidence = screen.result[1].confidence,
                                   !.imageUri = screen.capturedUri, !.attempt = 1]]
    /\ pre' = [pre EXCEPT ![c] = snapshot]
    /\ alone' = overlapAtStart(c)
    /\ started' = started + 1
    /\ UNCHANGED <<profileRec, complaintsRec, clock, faults, probe, classifier>>

\* the awaited fileComplaint has returned: the points are shown, submitted is
\* set, and the finally block clears isSubmitting
SubmitReturns(c) ==
    /\ c \in screen.awaiting
    /\ call[c].pc = "done"
    /\ screen' = [screen EXCEPT !.pointsAwarded = <<call[c].pointsAwarded>>,
                                !.submitted = TRUE,
                                !.isSubmitting = FALSE,
                                !.awaiting = screen.awaiting \ {c},
                                !.filed = screen.filed \cup {call[c].imageUri}]
    /\ UNCHANGED <<storeVars, probe, classifier>>

\* the awaited fileComplaint has rejected: the alert, and the finally block
SubmitRejects(c) ==
    /\ c \in screen.awaiting
    /\ call[c].pc = "rejected"
    /\ screen' = [screen EXCEPT !.isSubmitting = FALSE,
                                !.awaiting = screen.awaiting \ {c}]
    /\ UNCHANGED <<storeVars, probe, classifier>>

\* Back, Retake Photo or Scan Another Item pressed in the result view
HandleScanAgain ==
    /\ noPending
    /\ resultShown
    /\ screen' = [screen EXCEPT !.capturedUri = 0, !.result = <<>>, !.location = <<>>,
                                !.isSubmitting = FALSE, !.submitted = FALSE,
                                !.pointsAwarded = <<>>, !.scanState = "camera"]
    /\ UNCHANGED <<storeVars, probe, classifier>>

NextScan ==
    \/ HandleCapture
    \/ \E outcome \in {"photo", "none", "throws"} : TakePicture(outcome)
    \/ noPending /\ HeuristicFallback
    \/ \E geoLocation \in GeoLocations : CaptureResolves(geoLocation)
    \/ \E c \in Calls : HandleSubmitReport(c)
    \/ \E c \in Calls, ok \in Outcomes : noPending /\ FileGotProfile(c, ok, 1)
    \/ \E c \in Calls, ok \in Outcomes : noPending /\ FileGotComplaints(c, ok)
    \/ \E c \in Calls, ok \in Outcomes : noPending /\ FileSetComplaints(c, ok)
    \/ \E c \in Calls, ok \in Outcomes : noPending /\ SaveUserProfile(c, ok)
    \/ \E c \in Calls : SubmitReturns(c)
    \/ \E c \in Calls : SubmitRejects(c)
    \/ HandleScanAgain

SpecScan == Init /\ [][NextScan]_vars

\* C30: in the scan screen, whenever the result view is shown with submitted =
\* true (the 'Report Submitted' state with no submit button), a fileComplaint
\* for the currently captured image has completed successfully; this holds for
\* every ordering of the user events capture, submit, retake/back
\* (handleScanAgain) and the completion of an in-flight fileComplaint.
C30_SubmittedMeansFiled ==
    (resultShown /\ screen.submitted) => screen.capturedUri \in screen.filed

====
